---- MODULE Spec2Model ----
(***************************************************************************)
(* The vector editor of components/graphic-editor.tsx as a state machine.  *)
(*                                                                         *)
(* The variables are the component's React state.  Every event handler is  *)
(* one action: it reads the state of the render it was created in (the     *)
(* unprimed variables), and the state updates it queues are applied        *)
(* together when it returns (the primed variables).  A functional updater  *)
(* setX(prev => ...) is applied to the queued state, a plain read such as  *)
(* the canvasState inside saveToHistory sees the render's value.           *)
(*                                                                         *)
(* JavaScript objects that the code mutates in place (element objects and  *)
(* brush point arrays) have identity: they live in the heaps objs and      *)
(* paths, and the element lists hold references.  Unreachable heap cells   *)
(* are dropped and the rest renumbered after every handler, which no       *)
(* handler can observe.                                                    *)
(***************************************************************************)
EXTENDS Integers, Sequences, FiniteSets, TLC

VARIABLES tool, isDrawing, canvasState, history, historyIndex,
          panOffset, zoom, isPanning, lastPanPoint,
          isEditingText, textInputPosition, textInputValue,
          isDragging, dragStart, dragElementStart,
          objs, paths, loads, events

vars == <<tool, isDrawing, canvasState, history, historyIndex,
          panOffset, zoom, isPanning, lastPanPoint,
          isEditingText, textInputPosition, textInputValue,
          isDragging, dragStart, dragElementStart,
          objs, paths, loads, events>>

---------------------------------------------------------------------------
(* Bounds of the model. *)

\* pointer events land on the grid {0, GridStep, .., MaxCoord * GridStep}^2
MaxCoord == 1
GridStep == 10
\* generateId draws from MaxId + 1 strings, the empty string among them
MaxId == 1
\* a handler that would make the element list longer than this is not taken
MaxElements == 2
\* a handler that would make the history longer than this is not taken
MaxHistory == 3
\* image loads in flight at the same time
MaxLoads == 1
\* points of one brush path
MaxPath == 2
\* a line's second endpoint stays within MaxEnd grid steps of the origin
MaxEnd == 2
\* the pan offset stays within MaxPan grid steps of the origin
MaxPan == 1
\* events that change the state, in one run
MaxEvents == 6
\* pointer-moves in one gesture of a property about whole gestures
MaxMoves == 2
\* binary digits after the point that a number which is not an integer keeps
FracBits == 6
\* document coordinates between two integers that the round trip is tried on
MaxFine == 3

---------------------------------------------------------------------------
(* Values. *)

\* the value of an optional numeric field that is absent (undefined)
UNDEF == -999
\* the text of an element that has none (undefined); a text is a sequence of
\* characters
NoText == <<"undefined">>
\* selectedElementId: string | null
NULL == -1
\* "" is the one string generateId can return that JavaScript treats as false
EmptyId == 0

Tools == {"select", "pan", "brush", "rectangle", "circle", "line",
          "triangle", "star", "polygon", "text", "image"}

currentColor == "#164e63"
strokeWidth == 2
fontSize == 16
fontFamily == "Arial"
textAlign == "left"

\* canvas.width and canvas.height of the drawing canvas
CanvasWidth == 1200
CanvasHeight == 800

Coords == {GridStep * i : i \in 0..MaxCoord}

Point(px, py) == [x |-> px, y |-> py]

Origin == Point(0, 0)

\* JavaScript truthiness of an id (string | null) and of an optional number
TruthyId(id) == id # NULL /\ id # EmptyId
TruthyNum(n) == n # UNDEF /\ n # 0

\* a || b on optional numbers
OrElse(a, b) == IF TruthyNum(a) THEN a ELSE b

Max(a, b) == IF a >= b THEN a ELSE b
Min(a, b) == IF a <= b THEN a ELSE b

---------------------------------------------------------------------------
(* JavaScript numbers.  A number is a fraction in lowest terms; the result of
   an arithmetic operation is rounded to the nearest multiple of
   2^-FracBits, ties to even, so integers are exact and other results are
   not. *)

RECURSIVE GCD(_, _)
GCD(a, b) == IF b = 0 THEN a ELSE GCD(b, a % b)

Abs(a) == IF a >= 0 THEN a ELSE -a

RECURSIVE Pow2(_)
Pow2(k) == IF k = 0 THEN 1 ELSE 2 * Pow2(k - 1)

\* the fraction n / d, d # 0
Rat(n, d) ==
  LET g == GCD(Abs(n), Abs(d))
  IN IF d > 0 THEN [n |-> n \div g, d |-> d \div g]
     ELSE [n |-> (-n) \div g, d |-> (-d) \div g]

Num(i) == [n |-> i, d |-> 1]

RAdd(a, b) == Rat(a.n * b.d + b.n * a.d, a.d * b.d)
RSub(a, b) == Rat(a.n * b.d - b.n * a.d, a.d * b.d)
RMul(a, b) == Rat(a.n * b.n, a.d * b.d)
RDiv(a, b) == Rat(a.n * b.d, a.d * b.n)
RLe(a, b) == a.n * b.d <= b.n * a.d
RAbs(a) == [n |-> Abs(a.n), d |-> a.d]

\* the number the arithmetic stores for the exact result r: an integer is
\* stored as it is, any other result rounded to the nearest multiple of
\* 2^-FracBits, ties to even
Fl(r) ==
  IF r.d = 1 THEN r
  ELSE LET a == Abs(r.n) * Pow2(FracBits)
           q == a \div r.d
           rem == a % r.d
           up == 2 * rem > r.d \/ (2 * rem = r.d /\ q % 2 = 1)
           m == IF up THEN q + 1 ELSE q
       IN Rat(IF r.n >= 0 THEN m ELSE -m, Pow2(FracBits))

\* a * b, a / b, a + b, a - b, Math.min and Math.max of JavaScript
Times(a, b) == Fl(RMul(a, b))
Over(a, b) == Fl(RDiv(a, b))
Plus(a, b) == Fl(RAdd(a, b))
Minus(a, b) == Fl(RSub(a, b))
MathMin(a, b) == IF RLe(a, b) THEN a ELSE b
MathMax(a, b) == IF RLe(a, b) THEN b ELSE a

\* the literals of the zoom handlers
ZoomInFactor == Fl(Rat(12, 10))
WheelInFactor == Fl(Rat(11, 10))
WheelOutFactor == Fl(Rat(9, 10))
MinZoom == Fl(Rat(1, 10))
MaxZoom == Num(5)

\* a coordinate of the document: an integer where the number is one
Coord(r) == IF r.d = 1 THEN r.n ELSE r

---------------------------------------------------------------------------
(* Identifiers and elements. *)

\* the strings Math.random().toString(36).substr(2, 9) can be: nothing in the
\* code keeps two calls from returning the same one, or the empty one
generateId == 0..MaxId

\* the element literal every creation site starts from.  Absent numeric
\* fields are UNDEF.  radiusSq is the square of the code's radius, which
\* keeps Math.sqrt exact; points is a reference into the heap of paths.
BaseElement(id, type, pos) ==
  [id |-> id, type |-> type, x |-> pos.x, y |-> pos.y,
   color |-> currentColor, strokeWidth |-> strokeWidth, visible |-> TRUE,
   points |-> UNDEF, width |-> UNDEF, height |-> UNDEF, radiusSq |-> UNDEF,
   endX |-> UNDEF, endY |-> UNDEF,
   text |-> NoText, fontSize |-> UNDEF, fontFamily |-> "undefined",
   textAlign |-> "undefined",
   imageData |-> "undefined", imageWidth |-> UNDEF, imageHeight |-> UNDEF]

EmptyState == [elements |-> <<>>, selectedElementId |-> NULL]

---------------------------------------------------------------------------
(* The heap: reachable cells in order of first reference. *)

RECURSIVE Distinct(_)
Distinct(s) ==
  IF s = <<>> THEN <<>>
  ELSE LET r == Distinct(SubSeq(s, 1, Len(s) - 1))
       IN IF \E i \in 1..Len(r) : r[i] = s[Len(s)] THEN r ELSE Append(r, s[Len(s)])

RECURSIVE FlattenStates(_)
FlattenStates(h) ==
  IF h = <<>> THEN <<>>
  ELSE FlattenStates(SubSeq(h, 1, Len(h) - 1)) \o h[Len(h)].elements

RECURSIVE FlattenLoads(_)
FlattenLoads(l) ==
  IF l = <<>> THEN <<>>
  ELSE FlattenLoads(SubSeq(l, 1, Len(l) - 1))
         \o l[Len(l)].canvasState.elements \o FlattenStates(l[Len(l)].history)

IndexOf(s, v) == CHOOSE i \in 1..Len(s) : s[i] = v

RenameState(s, order) ==
  [s EXCEPT !.elements = [i \in 1..Len(@) |-> IndexOf(order, @[i])]]

RenameStates(h, order) == [i \in 1..Len(h) |-> RenameState(h[i], order)]

\* s with the unreachable heap cells dropped and the others renumbered
Collect(s) ==
  LET order == Distinct(s.canvasState.elements \o FlattenStates(s.history)
                          \o FlattenLoads(s.loads))
      os1 == [i \in 1..Len(order) |-> s.objs[order[i]]]
      porder == Distinct([k \in 1..Len(os1) |-> os1[k].points])
      pkept == SelectSeq(porder, LAMBDA p : p # UNDEF)
  IN [s EXCEPT
        !.canvasState = RenameState(@, order),
        !.history = RenameStates(@, order),
        !.loads = [i \in 1..Len(@) |->
                     [@[i] EXCEPT !.canvasState = RenameState(@, order),
                                  !.history = RenameStates(@, order)]],
        !.objs = [i \in 1..Len(order) |->
                    IF os1[i].points # UNDEF
                    THEN [os1[i] EXCEPT !.points = IndexOf(pkept, @)]
                    ELSE os1[i]],
        !.paths = [i \in 1..Len(pkept) |-> s.paths[pkept[i]]]]

\* Values no handler reads before it writes them again: the drag origin
\* outside a drag, the pan origin outside a pan, the text position outside a
\* text entry.  They are set to the origin so that states differing only in
\* them are one state.
Forget(s) ==
  [s EXCEPT
     !.dragStart = IF s.isDragging THEN @ ELSE Origin,
     !.dragElementStart = IF s.isDragging THEN @ ELSE Origin,
     !.lastPanPoint = IF s.isPanning THEN @ ELSE Origin,
     !.textInputPosition = IF s.isEditingText THEN @ ELSE Origin]

\* an element list with the objects read out of the heap (a path is never
\* empty, so <<>> stands for an element without points)
Elements(st, s) ==
  [i \in 1..Len(st.elements) |->
     LET el == s.objs[st.elements[i]]
     IN [el EXCEPT !.points = IF @ = UNDEF THEN <<>> ELSE s.paths[@]]]

\* a document state by value: what deep equality compares
Doc(st, s) ==
  [elements |-> Elements(st, s), selectedElementId |-> st.selectedElementId]

\* the history by value
Docs(s) == [i \in 1..Len(s.history) |-> Doc(s.history[i], s)]

---------------------------------------------------------------------------
(* The component's state as one record, and the handlers as functions of it. *)

S == [tool |-> tool, isDrawing |-> isDrawing, canvasState |-> canvasState,
      history |-> history, historyIndex |-> historyIndex,
      panOffset |-> panOffset, zoom |-> zoom, isPanning |-> isPanning,
      lastPanPoint |-> lastPanPoint, isEditingText |-> isEditingText,
      textInputPosition |-> textInputPosition,
      textInputValue |-> textInputValue, isDragging |-> isDragging,
      dragStart |-> dragStart, dragElementStart |-> dragElementStart,
      objs |-> objs, paths |-> paths, loads |-> loads]

InitialState ==
  [tool |-> "select", isDrawing |-> FALSE, canvasState |-> EmptyState,
   history |-> <<EmptyState>>, historyIndex |-> 0,
   panOffset |-> Origin, zoom |-> Num(1), isPanning |-> FALSE,
   lastPanPoint |-> Origin, isEditingText |-> FALSE,
   textInputPosition |-> Origin, textInputValue |-> <<>>,
   isDragging |-> FALSE, dragStart |-> Origin, dragElementStart |-> Origin,
   objs |-> <<>>, paths |-> <<>>, loads |-> <<>>]

\* saveToHistory that sets the index to newHistory.length
saveToHistoryPastEnd(r, s) ==
  LET newHistory == Append(SubSeq(r.history, 1, r.historyIndex + 1), r.canvasState)
  IN [s EXCEPT !.history = newHistory, !.historyIndex = Len(newHistory)]

\* saveToHistory that makes room by dropping the oldest entry
saveToHistoryEvicting(r, s) ==
  LET newHistory == Append(SubSeq(r.history, 2, r.historyIndex + 1), r.canvasState)
  IN [s EXCEPT !.history = newHistory, !.historyIndex = Len(newHistory) - 1]

\* saveToHistory called from a handler of the render whose state is r, with
\* the handler's queued updates so far in s: history, historyIndex and
\* canvasState are the render's, and { ...canvasState } is a new state object
\* over the same elements array
saveToHistory(r, s) ==
  LET newHistory == Append(SubSeq(r.history, 1, r.historyIndex + 1), r.canvasState)
  IN [s EXCEPT !.history = newHistory, !.historyIndex = Len(newHistory) - 1]

\* an undo that moves the index and leaves the document
undoIndexOnly(s) ==
  IF s.historyIndex > 0
  THEN [s EXCEPT !.historyIndex = s.historyIndex - 1]
  ELSE s

undo(s) ==
  IF s.historyIndex > 0
  THEN [s EXCEPT !.historyIndex = s.historyIndex - 1,
                 !.canvasState = s.history[(s.historyIndex - 1) + 1]]
  ELSE s

redo(s) ==
  IF s.historyIndex < Len(s.history) - 1
  THEN [s EXCEPT !.historyIndex = s.historyIndex + 1,
                 !.canvasState = s.history[(s.historyIndex + 1) + 1]]
  ELSE s

setTool(s, t) == [s EXCEPT !.tool = t]

---------------------------------------------------------------------------
(* Pointer events and hit testing. *)

\* the canvas's bounding rectangle starts at the client origin
RectLeft == 0
RectTop == 0

\* a mapping that divides the screen point before it subtracts the pan
toDocumentPanAfter(s, clientX, clientY) ==
  Point(Minus(Over(Minus(clientX, Num(RectLeft)), s.zoom), Num(s.panOffset.x)),
        Minus(Over(Minus(clientY, Num(RectTop)), s.zoom), Num(s.panOffset.y)))

\* (clientX - rect.left - panOffset.x) / zoom, and the same for y
toDocument(s, clientX, clientY) ==
  Point(Over(Minus(Minus(clientX, Num(RectLeft)), Num(s.panOffset.x)), s.zoom),
        Over(Minus(Minus(clientY, Num(RectTop)), Num(s.panOffset.y)), s.zoom))

getMousePos(s, e) ==
  LET pos == toDocument(s, Num(e.clientX), Num(e.clientY))
  IN Point(Coord(pos.x), Coord(pos.y))

\* a placement that adds the pan before it scales
toScreenPanFirst(s, px, py) ==
  Point(Times(Plus(px, Num(s.panOffset.x)), s.zoom),
        Times(Plus(py, Num(s.panOffset.y)), s.zoom))

\* left and top of the text input: textInputPosition.x * zoom + panOffset.x,
\* and the same for y
toScreen(s, px, py) ==
  Point(Plus(Times(px, s.zoom), Num(s.panOffset.x)),
        Plus(Times(py, s.zoom), Num(s.panOffset.y)))

\* the zoom buttons of the top toolbar
handleZoomInUnclamped(s) == [s EXCEPT !.zoom = Times(@, ZoomInFactor)]

handleZoomIn(s) == [s EXCEPT !.zoom = MathMin(Times(@, ZoomInFactor), MaxZoom)]

handleZoomOut(s) == [s EXCEPT !.zoom = MathMax(Over(@, ZoomInFactor), MinZoom)]

handleZoomReset(s) == [s EXCEPT !.zoom = Num(1), !.panOffset = Origin]

\* ctrl + wheel zooms; the wheel alone does nothing
handleWheel(s, e) ==
  IF e.ctrlKey
  THEN LET delta == IF e.deltaY > 0 THEN WheelOutFactor ELSE WheelInFactor
       IN [s EXCEPT !.zoom = MathMin(MathMax(Times(@, delta), MinZoom), MaxZoom)]
  ELSE s

DistSq(ax, ay, bx, by) == (ax - bx) * (ax - bx) + (ay - by) * (ay - by)

\* ctx.measureText(text).width under the element's font: the browser's
\* answer, taken as half the font size per character
measureText(el) == Len(el.text) * (OrElse(el.fontSize, 16) \div 2)

\* a box test that takes (x, y) for the top left corner
HitsBoxFromAnchor(el, pos) ==
  LET width == OrElse(el.width, 0)
      height == OrElse(el.height, 0)
  IN /\ pos.x >= el.x /\ pos.x <= el.x + width
     /\ pos.y >= el.y /\ pos.y <= el.y + height

HitsBox(el, pos) ==
  LET width == OrElse(el.width, 0)
      height == OrElse(el.height, 0)
      minX == IF width >= 0 THEN el.x ELSE el.x + width
      maxX == IF width >= 0 THEN el.x + width ELSE el.x
      minY == IF height >= 0 THEN el.y ELSE el.y + height
      maxY == IF height >= 0 THEN el.y + height ELSE el.y
  IN pos.x >= minX /\ pos.x <= maxX /\ pos.y >= minY /\ pos.y <= maxY

\* distance <= (radius || 0), both sides squared
HitsRadius(el, pos) ==
  DistSq(pos.x, pos.y, el.x, el.y) <= OrElse(el.radiusSq, 0)

\* distance to the segment <= max(strokeWidth / 2, 8); the comparison is
\* multiplied out so that it stays in the integers
HitsLine(el, pos) ==
  LET x1 == el.x
      y1 == el.y
      x2 == OrElse(el.endX, el.x)
      y2 == OrElse(el.endY, el.y)
      A == pos.x - x1
      B == pos.y - y1
      C == x2 - x1
      D == y2 - y1
      dot == A * C + B * D
      lenSq == C * C + D * D
      limit == Max(el.strokeWidth, 16)
  IN IF lenSq = 0 THEN FALSE
     ELSE IF dot < 0 THEN 4 * DistSq(pos.x, pos.y, x1, y1) <= limit * limit
     ELSE IF dot > lenSq THEN 4 * DistSq(pos.x, pos.y, x2, y2) <= limit * limit
     ELSE 4 * ((A * lenSq - dot * C) * (A * lenSq - dot * C)
               + (B * lenSq - dot * D) * (B * lenSq - dot * D))
            <= limit * limit * lenSq * lenSq

HitsText(el, pos) ==
  /\ el.text # NoText /\ el.text # <<>>
  /\ LET textWidth == measureText(el)
         textHeight == OrElse(el.fontSize, 16)
     IN /\ pos.x >= el.x /\ pos.x <= el.x + textWidth
        /\ pos.y >= el.y - textHeight /\ pos.y <= el.y + 4

HitsImage(el, pos) ==
  LET width == OrElse(el.width, OrElse(el.imageWidth, 0))
      height == OrElse(el.height, OrElse(el.imageHeight, 0))
  IN /\ pos.x >= el.x /\ pos.x <= el.x + width
     /\ pos.y >= el.y /\ pos.y <= el.y + height

HitsBrush(el, path, pos) ==
  \E k \in 1..Len(path) :
    DistSq(pos.x, pos.y, path[k].x, path[k].y)
      <= Max(el.strokeWidth, 8) * Max(el.strokeWidth, 8)

\* one turn of the loop of findElementAtPosition
Hits(el, s, pos) ==
  /\ el.visible
  /\ CASE el.type \in {"rectangle", "triangle"} -> HitsBox(el, pos)
       [] el.type \in {"circle", "star", "polygon"} -> HitsRadius(el, pos)
       [] el.type = "line" -> HitsLine(el, pos)
       [] el.type = "text" -> HitsText(el, pos)
       [] el.type = "image" -> HitsImage(el, pos)
       [] el.type = "brush" -> el.points # UNDEF /\ HitsBrush(el, s.paths[el.points], pos)
       [] OTHER -> FALSE

\* a search that returns the first match in sequence order
findElementAtPositionFirst(s, pos) ==
  LET els == s.canvasState.elements
      hit == {i \in 1..Len(els) : Hits(s.objs[els[i]], s, pos)}
  IN IF hit = {} THEN NULL
     ELSE s.objs[els[CHOOSE i \in hit : \A j \in hit : i <= j]].id

\* the elements of the render, last first
findElementAtPosition(s, pos) ==
  LET els == s.canvasState.elements
      hit == {i \in 1..Len(els) : Hits(s.objs[els[i]], s, pos)}
  IN IF hit = {} THEN NULL
     ELSE s.objs[els[CHOOSE i \in hit : \A j \in hit : j <= i]].id

\* elements.find((el) => el.id === id): the position of the first one, or 0
FindById(s, id) ==
  LET els == s.canvasState.elements
      at == {i \in 1..Len(els) : s.objs[els[i]].id = id}
  IN IF at = {} THEN 0 ELSE CHOOSE i \in at : \A j \in at : i <= j

---------------------------------------------------------------------------
(* Creating elements. *)

\* an insertion that puts the new object first: [el, ...prev.elements]
PrependElement(s, el) ==
  [s EXCEPT !.objs = Append(@, el),
            !.canvasState = [elements |-> <<Len(s.objs) + 1>> \o @.elements,
                             selectedElementId |-> el.id]]

\* setCanvasState(prev => ({...prev, elements: [...prev.elements, el],
\* selectedElementId: el.id})) for a new object el
AppendElement(s, el) ==
  [s EXCEPT !.objs = Append(@, el),
            !.canvasState = [elements |-> Append(@.elements, Len(s.objs) + 1),
                             selectedElementId |-> el.id]]

\* an addElement that seeds width and height whatever the tool
addElementSized(s, pos, id) ==
  AppendElement(s, [BaseElement(id, s.tool, pos) EXCEPT !.width = 0, !.height = 0])

addElement(s, pos, id) ==
  LET base == BaseElement(id, s.tool, pos)
  IN IF s.tool = "brush"
     THEN AppendElement([s EXCEPT !.paths = Append(@, <<pos>>)],
                        [base EXCEPT !.points = Len(s.paths) + 1])
     ELSE IF s.tool \in {"rectangle", "triangle"}
     THEN AppendElement(s, [base EXCEPT !.width = 0, !.height = 0])
     ELSE IF s.tool \in {"circle", "star", "polygon"}
     THEN AppendElement(s, [base EXCEPT !.radiusSq = 0])
     ELSE IF s.tool = "line"
     THEN AppendElement(s, [base EXCEPT !.endX = pos.x, !.endY = pos.y])
     ELSE AppendElement(s, base)

\* String.prototype.trim over the characters the model types
RECURSIVE TrimLeft(_)
TrimLeft(t) == IF t # <<>> /\ Head(t) = " " THEN TrimLeft(Tail(t)) ELSE t

RECURSIVE TrimRight(_)
TrimRight(t) ==
  IF t # <<>> /\ t[Len(t)] = " " THEN TrimRight(SubSeq(t, 1, Len(t) - 1)) ELSE t

Trim(t) == TrimRight(TrimLeft(t))

\* a commit that tests the buffer without trimming it
completeTextInputUntrimmed(s, id) ==
  LET el == [BaseElement(id, "text", s.textInputPosition) EXCEPT
               !.text = s.textInputValue, !.fontSize = fontSize,
               !.fontFamily = fontFamily, !.textAlign = textAlign]
      s1 == IF s.textInputValue # <<>>
            THEN saveToHistory(s, AppendElement(s, el))
            ELSE s
  IN [s1 EXCEPT !.isEditingText = FALSE, !.textInputValue = <<>>]

completeTextInput(s, id) ==
  LET el == [BaseElement(id, "text", s.textInputPosition) EXCEPT
               !.text = s.textInputValue, !.fontSize = fontSize,
               !.fontFamily = fontFamily, !.textAlign = textAlign]
      s1 == IF Trim(s.textInputValue) # <<>>
            THEN saveToHistory(s, AppendElement(s, el))
            ELSE s
  IN [s1 EXCEPT !.isEditingText = FALSE, !.textInputValue = <<>>]

---------------------------------------------------------------------------
(* The canvas's mouse handlers. *)

\* prev.elements.map(...) of an updater that gives every element whose id is
\* prev.selectedElementId a new object and keeps the other objects;
\* replacement[ref] is the new object for the element object ref
ReplaceSelected(s, replacement) ==
  LET els == s.canvasState.elements
      sel == s.canvasState.selectedElementId
      at == {i \in 1..Len(els) : s.objs[els[i]].id = sel}
      Rank(i) == Cardinality({j \in at : j <= i})
      Nth(k) == CHOOSE i \in at : Rank(i) = k
  IN [s EXCEPT
        !.objs = @ \o [k \in 1..Cardinality(at) |-> replacement[els[Nth(k)]]],
        !.canvasState.elements =
           [i \in 1..Len(els) |-> IF i \in at THEN Len(s.objs) + Rank(i) ELSE els[i]]]

IsPanGesture(s, e) ==
  e.button = 1 \/ (e.button = 0 /\ (e.ctrlKey \/ s.tool = "pan"))

SelectAt(s, pos) ==
  LET elementId == findElementAtPosition(s, pos)
      s1 == [s EXCEPT !.canvasState.selectedElementId = elementId]
      at == FindById(s, elementId)
  IN IF TruthyId(elementId) /\ at # 0
     THEN LET element == s.objs[s.canvasState.elements[at]]
          IN [s1 EXCEPT !.isDragging = TRUE,
                        !.dragStart = pos,
                        !.dragElementStart = Point(element.x, element.y)]
     ELSE s1

handleMouseDown(s, e, id) ==
  IF s.isEditingText THEN completeTextInput(s, id)
  ELSE IF IsPanGesture(s, e)
  THEN [s EXCEPT !.isPanning = TRUE,
                 !.lastPanPoint = Point(e.clientX, e.clientY)]
  ELSE LET pos == getMousePos(s, e)
           s1 == [s EXCEPT !.isDrawing = TRUE]
       IN IF s.tool = "image" THEN s1
          ELSE IF s.tool = "select" THEN SelectAt(s1, pos)
          ELSE IF s.tool = "text"
          THEN [s1 EXCEPT !.isEditingText = TRUE,
                          !.textInputPosition = pos,
                          !.textInputValue = <<>>]
          ELSE addElement(s1, pos, id)

\* a drag that builds the moved object without { ...element }
DraggedWithoutSpread(element, start, deltaX, deltaY) ==
  [BaseElement(NULL, "undefined", Point(start.x + deltaX, start.y + deltaY))
     EXCEPT !.color = element.color, !.strokeWidth = element.strokeWidth]

\* a drag that gives the moved object the colour of the toolbar
DraggedRecoloured(element, start, deltaX, deltaY) ==
  [element EXCEPT !.x = start.x + deltaX, !.y = start.y + deltaY,
                  !.color = currentColor]

\* the object a drag pointer-move puts in the place of a selected element
Dragged(element, start, deltaX, deltaY) ==
  IF element.type = "line"
  THEN [element EXCEPT !.x = start.x + deltaX,
                       !.y = start.y + deltaY,
                       !.endX = OrElse(element.endX, element.x) + deltaX,
                       !.endY = OrElse(element.endY, element.y) + deltaY]
  ELSE [element EXCEPT !.x = start.x + deltaX, !.y = start.y + deltaY]

\* a live-resize that takes the pointer's coordinates for the extent
LiveResizeAbsolute(s, pos) ==
  LET els == s.canvasState.elements
  IN IF els = <<>> THEN s
     ELSE [s EXCEPT !.objs[els[Len(els)]].width = pos.x,
                    !.objs[els[Len(els)]].height = pos.y]

\* a draw pointer-move that keeps only the newest point of a brush path
LiveResizeNewestPoint(s, pos) ==
  LET els == s.canvasState.elements
  IN IF els = <<>> THEN s
     ELSE LET currentElement == s.objs[els[Len(els)]]
          IN IF s.tool = "brush" /\ currentElement.points # UNDEF
             THEN [s EXCEPT !.paths[currentElement.points] = <<@[1], pos>>]
             ELSE s

\* the updater of a draw pointer-move: it writes into the last element's
\* object, and into its points array, where they are
LiveResize(s, pos) ==
  LET els == s.canvasState.elements
  IN IF els = <<>> THEN s
     ELSE LET ref == els[Len(els)]
              currentElement == s.objs[ref]
          IN IF s.tool = "brush" /\ currentElement.points # UNDEF
             THEN [s EXCEPT !.paths[currentElement.points] = Append(@, pos)]
             ELSE IF s.tool \in {"rectangle", "triangle"}
             THEN [s EXCEPT !.objs[ref].width = pos.x - currentElement.x,
                            !.objs[ref].height = pos.y - currentElement.y]
             ELSE IF s.tool \in {"circle", "star", "polygon"}
             THEN [s EXCEPT !.objs[ref].radiusSq =
                              DistSq(pos.x, pos.y, currentElement.x, currentElement.y)]
             ELSE IF s.tool = "line"
             THEN [s EXCEPT !.objs[ref].endX = pos.x, !.objs[ref].endY = pos.y]
             ELSE s

\* a pointer-move that pans by the distance from the origin of the screen
handleMouseMoveAbsolutePan(s, e) ==
  IF s.isPanning
  THEN [s EXCEPT !.panOffset = Point(@.x + e.clientX, @.y + e.clientY),
                 !.lastPanPoint = Point(e.clientX, e.clientY)]
  ELSE s

handleMouseMove(s, e) ==
  IF s.isPanning
  THEN [s EXCEPT !.panOffset = Point(@.x + (e.clientX - s.lastPanPoint.x),
                                     @.y + (e.clientY - s.lastPanPoint.y)),
                 !.lastPanPoint = Point(e.clientX, e.clientY)]
  ELSE IF s.isDragging /\ TruthyId(s.canvasState.selectedElementId)
  THEN LET pos == getMousePos(s, e)
           deltaX == pos.x - s.dragStart.x
           deltaY == pos.y - s.dragStart.y
       IN ReplaceSelected(s, [ref \in 1..Len(s.objs) |->
                                Dragged(s.objs[ref], s.dragElementStart, deltaX, deltaY)])
  ELSE IF ~s.isDrawing THEN s
  ELSE LiveResize(s, getMousePos(s, e))

\* a pointer-up whose second saveToHistory sees what the first one queued
handleMouseUpTwice(s) ==
  LET s1 == [s EXCEPT !.isPanning = FALSE]
      s2 == IF s.isDragging
            THEN saveToHistory(s, [s1 EXCEPT !.isDragging = FALSE])
            ELSE s1
      s3 == IF s.isDrawing THEN saveToHistory(s2, s2) ELSE s2
  IN [s3 EXCEPT !.isDrawing = FALSE]

\* a pointer-up that leaves isPanning as it is
handleMouseUpStillPanning(s) ==
  LET s2 == IF s.isDragging
            THEN saveToHistory(s, [s EXCEPT !.isDragging = FALSE])
            ELSE s
      s3 == IF s.isDrawing THEN saveToHistory(s, s2) ELSE s2
  IN [s3 EXCEPT !.isDrawing = FALSE]

handleMouseUp(s) ==
  LET s1 == [s EXCEPT !.isPanning = FALSE]
      s2 == IF s.isDragging
            THEN saveToHistory(s, [s1 EXCEPT !.isDragging = FALSE])
            ELSE s1
      s3 == IF s.isDrawing THEN saveToHistory(s, s2) ELSE s2
  IN [s3 EXCEPT !.isDrawing = FALSE]

---------------------------------------------------------------------------
(* The text input. *)

onChange(s, value) == [s EXCEPT !.textInputValue = value]

onKeyDown(s, key, id) ==
  IF key = "Enter" THEN completeTextInput(s, id)
  ELSE IF key = "Escape"
  THEN [s EXCEPT !.isEditingText = FALSE, !.textInputValue = <<>>]
  ELSE s

onBlur(s, id) == completeTextInput(s, id)

---------------------------------------------------------------------------
(* The property panel's commands. *)

\* { ...element, ...updates }
Merge(element, updates) ==
  [f \in DOMAIN element |-> IF f \in DOMAIN updates THEN updates[f] ELSE element[f]]

updateSelectedElement(s, updates) ==
  IF ~TruthyId(s.canvasState.selectedElementId) THEN s
  ELSE saveToHistory(s, ReplaceSelected(s, [ref \in 1..Len(s.objs) |->
                                              Merge(s.objs[ref], updates)]))

\* a delete that leaves selectedElementId as it is
deleteKeepingSelection(s) ==
  IF ~TruthyId(s.canvasState.selectedElementId) THEN s
  ELSE LET prev == s.canvasState
           Kept(ref) == s.objs[ref].id # prev.selectedElementId
       IN saveToHistory(s, [s EXCEPT !.canvasState.elements =
                                       SelectSeq(prev.elements, Kept)])

deleteSelectedElement(s) ==
  IF ~TruthyId(s.canvasState.selectedElementId) THEN s
  ELSE LET prev == s.canvasState
           Kept(ref) == s.objs[ref].id # prev.selectedElementId
       IN saveToHistory(s, [s EXCEPT !.canvasState =
                                       [elements |-> SelectSeq(prev.elements, Kept),
                                        selectedElementId |-> NULL]])

---------------------------------------------------------------------------
(* Image files. *)

IsImageType(type) == type \in {"image/png", "image/jpeg"}

NoDrop == [given |-> FALSE, x |-> 0, y |-> 0]

\* processImageFile: the callbacks of the reader and of the image are created
\* in the render whose state is s and keep its saveToHistory
processImageFile(s, file, dropPosition) ==
  [s EXCEPT !.loads = Append(@, [history |-> s.history,
                                 historyIndex |-> s.historyIndex,
                                 canvasState |-> s.canvasState,
                                 dropPosition |-> dropPosition,
                                 file |-> file])]

handleImageUpload(s, files) ==
  IF files = <<>> \/ ~IsImageType(files[1].type) THEN s
  ELSE processImageFile(s, files[1], NoDrop)

\* a drop that takes the first file whatever its type
handleDropUnfiltered(s, files, e) ==
  IF files = <<>> THEN s
  ELSE processImageFile(s, files[1],
                        [given |-> TRUE,
                         x |-> Coord(toDocument(s, Num(e.clientX), Num(e.clientY)).x),
                         y |-> Coord(toDocument(s, Num(e.clientX), Num(e.clientY)).y)])

handleDrop(s, files, e) ==
  LET imageFiles == SelectSeq(files, LAMBDA file : IsImageType(file.type))
  IN IF imageFiles = <<>> THEN s
     ELSE processImageFile(s, imageFiles[1],
                           [given |-> TRUE,
                            x |-> Coord(toDocument(s, Num(e.clientX), Num(e.clientY)).x),
                            y |-> Coord(toDocument(s, Num(e.clientX), Num(e.clientY)).y)])

\* the size the image is given: at most half the canvas in each direction
ScaledSize(file) ==
  LET maxWidth == CanvasWidth \div 2
      maxHeight == CanvasHeight \div 2
  IN IF file.width > maxWidth \/ file.height > maxHeight
     THEN IF maxWidth * file.height <= maxHeight * file.width
          THEN [width |-> maxWidth, height |-> (file.height * maxWidth) \div file.width]
          ELSE [width |-> (file.width * maxHeight) \div file.height, height |-> maxHeight]
     ELSE [width |-> file.width, height |-> file.height]

\* img.onload of the k-th load in flight
imageLoaded(s, k, id) ==
  LET load == s.loads[k]
      size == ScaledSize(load.file)
      x == IF load.dropPosition.given
           THEN load.dropPosition.x - size.width \div 2
           ELSE (CanvasWidth - size.width) \div 2
      y == IF load.dropPosition.given
           THEN load.dropPosition.y - size.height \div 2
           ELSE (CanvasHeight - size.height) \div 2
      newElement == [BaseElement(id, "image", Point(x, y)) EXCEPT
                       !.imageData = load.file.data,
                       !.imageWidth = size.width,
                       !.imageHeight = size.height,
                       !.width = size.width,
                       !.height = size.height]
      rest == [i \in 1..(Len(s.loads) - 1) |->
                 IF i < k THEN s.loads[i] ELSE s.loads[i + 1]]
  IN saveToHistory(load, AppendElement([s EXCEPT !.loads = rest], newElement))

---------------------------------------------------------------------------
(* The events the model draws, and the state machine. *)

\* left-button pointer events without modifier keys
PointerEvents ==
  [button : {0}, ctrlKey : {FALSE}, clientX : Coords, clientY : {0}]

\* the toolbar buttons pressed: rectangle stands for the tools that draw a
\* new element
DocTools == {"select", "rectangle", "text", "image"}

\* what the user types into the text input
TextValues == {<<>>, <<" ">>, <<"a">>}

Keys == {"Enter", "Escape", "a"}

\* updates the property panel sends (properties-panel.tsx)
PanelUpdates == {[x |-> GridStep], [color |-> "#ff0000"]}

ImageFile ==
  [type |-> "image/png", data |-> "data:image/png", width |-> 20, height |-> 10]

TextFile ==
  [type |-> "text/plain", data |-> "data:text/plain", width |-> 0, height |-> 0]

FileLists == {<<>>, <<ImageFile>>, <<TextFile, ImageFile>>}

\* the bounds of the model
Within(s) ==
  /\ Len(s.canvasState.elements) <= MaxElements
  /\ Len(s.history) <= MaxHistory
  /\ Len(s.loads) <= MaxLoads
  /\ \A i \in 1..Len(s.paths) : Len(s.paths[i]) <= MaxPath
  /\ \A i \in 1..Len(s.objs) :
       \A v \in {s.objs[i].endX, s.objs[i].endY} :
         v = UNDEF \/ (v >= -(MaxEnd * GridStep) /\ v <= MaxEnd * GridStep)
  /\ \A v \in {s.panOffset.x, s.panOffset.y} :
       v >= -(MaxPan * GridStep) /\ v <= MaxPan * GridStep

\* the state the next render sees: the handler's result, up to what no
\* handler can tell apart
Settle(r) == Forget(Collect(r))

\* the next render's state is n
Becomes(n) ==
  /\ tool' = n.tool
  /\ isDrawing' = n.isDrawing
  /\ canvasState' = n.canvasState
  /\ history' = n.history
  /\ historyIndex' = n.historyIndex
  /\ panOffset' = n.panOffset
  /\ zoom' = n.zoom
  /\ isPanning' = n.isPanning
  /\ lastPanPoint' = n.lastPanPoint
  /\ isEditingText' = n.isEditingText
  /\ textInputPosition' = n.textInputPosition
  /\ textInputValue' = n.textInputValue
  /\ isDragging' = n.isDragging
  /\ dragStart' = n.dragStart
  /\ dragElementStart' = n.dragElementStart
  /\ objs' = n.objs
  /\ paths' = n.paths
  /\ loads' = n.loads

\* The handler's result becomes the next render's state.  An event that
\* leaves the state as it is does not count against MaxEvents.
Do(r) ==
  /\ events < MaxEvents
  /\ \E n \in {IF r = S THEN S ELSE Settle(r)} :
     /\ Within(n)
     /\ n # S
     /\ events' = events + 1
     /\ Becomes(n)

\* An event of the viewport: the zoom has finitely many values and the pan
\* offset is bounded, so these events are not counted.
DoView(r) ==
  \E n \in {IF r = S THEN S ELSE Settle(r)} :
    /\ Within(n)
    /\ n # S
    /\ events' = events
    /\ Becomes(n)

Init ==
  /\ tool = InitialState.tool
  /\ isDrawing = InitialState.isDrawing
  /\ canvasState = InitialState.canvasState
  /\ history = InitialState.history
  /\ historyIndex = InitialState.historyIndex
  /\ panOffset = InitialState.panOffset
  /\ zoom = InitialState.zoom
  /\ isPanning = InitialState.isPanning
  /\ lastPanPoint = InitialState.lastPanPoint
  /\ isEditingText = InitialState.isEditingText
  /\ textInputPosition = InitialState.textInputPosition
  /\ textInputValue = InitialState.textInputValue
  /\ isDragging = InitialState.isDragging
  /\ dragStart = InitialState.dragStart
  /\ dragElementStart = InitialState.dragElementStart
  /\ objs = InitialState.objs
  /\ paths = InitialState.paths
  /\ loads = InitialState.loads
  /\ events = 0

Undo == Do(undo(S))

Redo == Do(redo(S))

SetTool(tools) == \E t \in tools : Do(setTool(S, t))

MouseDown(pointer, ids) ==
  \E e \in pointer, id \in ids : Do(handleMouseDown(S, e, id))

MouseMove(pointer) == \E e \in pointer : Do(handleMouseMove(S, e))

MouseUp == Do(handleMouseUp(S))

\* the text input exists while isEditingText
TextChange == isEditingText /\ \E value \in TextValues : Do(onChange(S, value))

TextKeyDown(ids) ==
  isEditingText /\ \E key \in Keys, id \in ids : Do(onKeyDown(S, key, id))

TextBlur(ids) == isEditingText /\ \E id \in ids : Do(onBlur(S, id))

UpdateSelectedElement ==
  \E updates \in PanelUpdates : Do(updateSelectedElement(S, updates))

DeleteSelectedElement == Do(deleteSelectedElement(S))

ImageUpload == \E files \in FileLists : Do(handleImageUpload(S, files))

Drop(pointer) ==
  \E files \in FileLists, e \in pointer : Do(handleDrop(S, files, e))

ImageLoaded(ids) ==
  \E k \in 1..Len(loads), id \in ids : Do(imageLoaded(S, k, id))

Next ==
  \/ Undo
  \/ Redo
  \/ SetTool(DocTools)
  \/ MouseDown(PointerEvents, generateId)
  \/ MouseMove(PointerEvents)
  \/ MouseUp
  \/ TextChange
  \/ TextKeyDown(generateId)
  \/ TextBlur(generateId)
  \/ UpdateSelectedElement
  \/ DeleteSelectedElement
  \/ ImageUpload
  \/ Drop(PointerEvents)
  \/ ImageLoaded(generateId)

Spec == Init /\ [][Next]_vars

\* select and one drawing tool for each branch of addElement
ShapeTools == {"select", "brush", "rectangle", "circle", "line"}

\* drawing, selecting, dragging and editing shapes of every drawn type
NextShapes ==
  \/ SetTool(ShapeTools)
  \/ MouseDown(PointerEvents, generateId)
  \/ MouseMove(PointerEvents)
  \/ MouseUp
  \/ UpdateSelectedElement
  \/ DeleteSelectedElement

SpecShapes == Init /\ [][NextShapes]_vars

\* pointer events that pan: the middle button, or the left one with ctrl
PanEvents ==
  {e \in [button : {0, 1}, ctrlKey : BOOLEAN, clientX : Coords, clientY : Coords] :
     (e.button = 1) # e.ctrlKey}

WheelEvents == [ctrlKey : BOOLEAN, deltaY : {-1, 0, 1}]

ZoomIn == DoView(handleZoomIn(S))

ZoomOut == DoView(handleZoomOut(S))

ZoomReset == DoView(handleZoomReset(S))

Wheel == \E e \in WheelEvents : DoView(handleWheel(S, e))

\* the toolbar buttons pressed while zooming and panning
ViewTool == \E t \in {"select", "rectangle"} : DoView(setTool(S, t))

PanDown == \E e \in PanEvents : DoView(handleMouseDown(S, e, EmptyId))

PanMove == \E e \in PanEvents : DoView(handleMouseMove(S, e))

PanUp == DoView(handleMouseUp(S))

\* zooming and panning the empty document
NextView ==
  \/ ZoomIn
  \/ ZoomOut
  \/ ZoomReset
  \/ Wheel
  \/ ViewTool
  \/ PanDown
  \/ PanMove
  \/ PanUp

SpecView == Init /\ [][NextView]_vars

---------------------------------------------------------------------------
(* What the properties below speak about. *)

\* no gesture and no text entry is in progress
Idle(s) == ~s.isDrawing /\ ~s.isDragging /\ ~s.isPanning /\ ~s.isEditingText

CurrentDoc(s) == Doc(s.canvasState, s)

\* the results of the handler calls that call saveToHistory in state s
CommitResults(s) ==
  (IF s.isDrawing \/ s.isDragging THEN {handleMouseUp(s)} ELSE {})
  \cup (IF TruthyId(s.canvasState.selectedElementId)
        THEN {updateSelectedElement(s, u) : u \in PanelUpdates}
               \cup {deleteSelectedElement(s)}
        ELSE {})
  \cup (IF s.isEditingText /\ Trim(s.textInputValue) # <<>>
        THEN {completeTextInput(s, id) : id \in generateId}
        ELSE {})
  \cup {imageLoaded(s, k, id) : k \in 1..Len(s.loads), id \in generateId}

\* the results of the pointer-moves in state s
MoveResults(s) == {handleMouseMove(s, e) : e \in PointerEvents}

\* the results of all handler calls in state s
HandlerResults(s) ==
  CommitResults(s) \cup MoveResults(s)
  \cup {undo(s), redo(s), handleMouseUp(s)}
  \cup {setTool(s, t) : t \in DocTools}
  \cup {handleMouseDown(s, e, id) : e \in PointerEvents, id \in generateId}
  \cup {updateSelectedElement(s, u) : u \in PanelUpdates}
  \cup {deleteSelectedElement(s)}

\* ids and types of an element list, in order
Identities(st, s) ==
  [i \in 1..Len(st.elements) |->
     <<s.objs[st.elements[i]].id, s.objs[st.elements[i]].type>>]

\* the tools whose pointer-down creates an element (addElement)
DrawTools ==
  {"brush", "rectangle", "circle", "line", "triangle", "star", "polygon"}

\* the pointer-moves of one gesture: at most MaxMoves of them
MoveSeqs(pointer) == UNION {[1..n -> pointer] : n \in 0..MaxMoves}

RECURSIVE Moves(_, _)
Moves(s, ms) ==
  IF ms = <<>> THEN s ELSE Moves(handleMouseMove(s, Head(ms)), Tail(ms))

\* pointer-down at e, the pointer-moves ms, pointer-up
Gesture(s, e, id, ms) == handleMouseUp(Moves(handleMouseDown(s, e, id), ms))

\* the pointer-down at e starts a draw gesture, or a drag gesture
StartsDraw(s, e) ==
  ~s.isEditingText /\ ~IsPanGesture(s, e) /\ s.tool \in DrawTools

StartsDrag(s, e) ==
  /\ ~s.isEditingText /\ ~IsPanGesture(s, e) /\ s.tool = "select"
  /\ handleMouseDown(s, e, EmptyId).isDragging

\* left-button pointer events over the grid, in both directions
GridEvents ==
  [button : {0}, ctrlKey : {FALSE}, clientX : Coords, clientY : Coords]

LeftButtonAt(px, py) ==
  [button |-> 0, ctrlKey |-> FALSE, clientX |-> px, clientY |-> py]

---------------------------------------------------------------------------
(* C1: after any sequence of committed operations that leaves              *)
(* historyIndex > 0, undo followed by redo restores the document state     *)
(* that was current before the undo: the same elements with the same       *)
(* field values, and the same selectedElementId.                           *)
C1_UndoRedoRestores ==
  (Idle(S) /\ historyIndex > 0)
    => CurrentDoc(redo(undo(S))) = CurrentDoc(S)

(* C2: immediately after every commit (pointer-up of a draw or drag, text  *)
(* commit, property edit, delete, image-load completion) the history entry *)
(* at historyIndex equals the current document state.                      *)
C2_CommitStoresCurrent ==
  \A r \in CommitResults(S) :
    Doc(r.history[r.historyIndex + 1], r) = CurrentDoc(r)

(* C3: in every reachable state 0 <= historyIndex < history.length.        *)
C3_IndexInRange == 0 <= historyIndex /\ historyIndex < Len(history)

C3_Witness ==
  /\ historyIndex > 0
  /\ historyIndex < Len(history) - 1

(* C4: a commit made after undos leaves historyIndex at history.length - 1 *)
(* so that redo is a no-op, and the entries that were beyond the index     *)
(* before the commit are no longer in the history: it ends with the entry  *)
(* that was at the index, followed by the one new entry.                   *)
C4_CommitTruncates ==
  historyIndex < Len(history) - 1 =>
    \A r \in CommitResults(S) :
      /\ r.historyIndex = Len(r.history) - 1
      /\ redo(r) = r
      /\ Len(r.history) = historyIndex + 2

(* C5: a history entry is a deep copy: no handler changes the content of   *)
(* an entry that stays in the history (its element list and every field    *)
(* of every element in it).                                                *)
C5_EntriesNeverChange ==
  \A r \in HandlerResults(S) :
    \A i \in 1..Min(Len(history), Len(r.history)) :
      r.history[i] = history[i] => Doc(r.history[i], r) = Doc(history[i], S)

(* C6: in every reachable state history[0] exists and is the empty         *)
(* document: no elements, selectedElementId null.                          *)
C6_FirstEntryEmpty ==
  /\ Len(history) >= 1
  /\ history[1].elements = <<>>
  /\ history[1].selectedElementId = NULL

C6_Witness ==
  /\ Len(history) = MaxHistory
  /\ history[MaxHistory].elements # <<>>
  /\ historyIndex = 0

(* C7: in every reachable state selectedElementId is null or the id of an  *)
(* element of the element list.                                            *)
C7_SelectionExists ==
  \/ canvasState.selectedElementId = NULL
  \/ FindById(S, canvasState.selectedElementId) # 0

C7_Witness ==
  /\ canvasState.selectedElementId # NULL
  /\ historyIndex < Len(history) - 1
  /\ Len(canvasState.elements) < Len(history[Len(history)].elements)

(* C8: in every reachable state no two elements of the element list have   *)
(* the same id.                                                            *)
C8_UniqueIds ==
  \A i, j \in 1..Len(canvasState.elements) :
    i # j => objs[canvasState.elements[i]].id # objs[canvasState.elements[j]].id

(* C9: a property-panel update, a drag pointer-move and a live-resize      *)
(* pointer-move never change the id or the type of an element, nor the     *)
(* number of elements.                                                     *)
C9_IdentityStable ==
  \A r \in MoveResults(S) \cup {updateSelectedElement(S, u) : u \in PanelUpdates} :
    Identities(r.canvasState, r) = Identities(canvasState, S)

C9_Witness ==
  /\ isDragging
  /\ \E i \in 1..Len(canvasState.elements) :
       /\ objs[canvasState.elements[i]].id = canvasState.selectedElementId
       /\ objs[canvasState.elements[i]].x # dragElementStart.x

(* C10: deleteSelectedElement with a non-null selection removes exactly    *)
(* the selected element, keeps the others unchanged and in order, and sets *)
(* selectedElementId to null; with a null selection it changes neither the *)
(* document nor the history.                                               *)
C10_DeleteRemovesSelected ==
  LET r == deleteSelectedElement(S)
      at == FindById(S, canvasState.selectedElementId)
      before == Elements(canvasState, S)
  IN IF canvasState.selectedElementId = NULL
     THEN r = S
     ELSE /\ r.canvasState.selectedElementId = NULL
          /\ at # 0 =>
               Elements(r.canvasState, r) =
                 [i \in 1..(Len(before) - 1) |->
                    IF i < at THEN before[i] ELSE before[i + 1]]

(* C11: a completed draw gesture and a completed drag gesture (pointer-down, *)
(* pointer-moves, pointer-up) advance historyIndex by one and add one entry *)
(* after the previous index, keeping the entries up to it; and no          *)
(* pointer-move adds, removes or replaces an entry or changes historyIndex. *)
C11_OneCommitPerGesture ==
  /\ \A e \in PointerEvents, id \in generateId, ms \in MoveSeqs(PointerEvents) :
       (StartsDraw(S, e) \/ StartsDrag(S, e)) =>
         LET u == Gesture(S, e, id, ms)
         IN /\ u.historyIndex = historyIndex + 1
            /\ Len(u.history) = historyIndex + 2
            /\ \A i \in 1..(historyIndex + 1) :
                 Doc(u.history[i], u) = Doc(history[i], S)
  /\ \A m \in MoveResults(S) :
       m.history = history /\ m.historyIndex = historyIndex

C11_Witness ==
  /\ Idle(S)
  /\ historyIndex = 1 /\ Len(history) = 2
  /\ Len(history[2].elements) = 1
  /\ objs[history[2].elements[1]].type = "line"
  /\ objs[history[2].elements[1]].endX # objs[history[2].elements[1]].x

(* C12: from the empty document with tool rectangle, pointer-down at a,     *)
(* pointer-moves ending at p and pointer-up give exactly one rectangle with *)
(* (x, y) = a, width = p.x - a.x and height = p.y - a.y, a history of       *)
(* length 2 and the rectangle's id as the selection; a = (10,10) and        *)
(* p = (110,60) give width 100 and height 50.                               *)
RectangleDrawn(s, e, id, ms) ==
  LET u == Gesture(s, e, id, ms)
      a == getMousePos(s, e)
      p == IF ms = <<>> THEN a ELSE getMousePos(s, ms[Len(ms)])
      els == Elements(u.canvasState, u)
  IN /\ Len(els) = 1
     /\ els[1].type = "rectangle"
     /\ els[1].x = a.x /\ els[1].y = a.y
     /\ els[1].width = p.x - a.x /\ els[1].height = p.y - a.y
     /\ Len(u.history) = 2
     /\ u.canvasState.selectedElementId = els[1].id

C12_RectangleDraw ==
  /\ (canvasState.elements = <<>> /\ Len(history) = 1 /\ tool = "rectangle" /\ Idle(S))
       => \A e \in GridEvents, id \in generateId, ms \in MoveSeqs(GridEvents) :
            RectangleDrawn(S, e, id, ms)
  /\ \A id \in generateId :
       LET u == Gesture(setTool(InitialState, "rectangle"), LeftButtonAt(10, 10), id,
                        <<LeftButtonAt(60, 35), LeftButtonAt(110, 60)>>)
           el == Elements(u.canvasState, u)[1]
       IN /\ RectangleDrawn(setTool(InitialState, "rectangle"), LeftButtonAt(10, 10), id,
                            <<LeftButtonAt(60, 35), LeftButtonAt(110, 60)>>)
          /\ el.x = 10 /\ el.y = 10 /\ el.width = 100 /\ el.height = 50

C12_Witness ==
  /\ Idle(S)
  /\ Len(history) = 2
  /\ Len(canvasState.elements) = 1
  /\ objs[canvasState.elements[1]].type = "rectangle"
  /\ objs[canvasState.elements[1]].width = GridStep
  /\ canvasState.selectedElementId = objs[canvasState.elements[1]].id

\* the position in the element list of the element a pointer-down at pos
\* hits: the last one whose hit test contains pos, or 0
TopHit(s, pos) ==
  LET els == s.canvasState.elements
      hit == {i \in 1..Len(els) : Hits(s.objs[els[i]], s, pos)}
  IN IF hit = {} THEN 0 ELSE CHOOSE i \in hit : \A j \in hit : j <= i

\* the pointer's document position after the moves ms of a gesture that
\* began at e
LastPos(s, e, ms) ==
  IF ms = <<>> THEN getMousePos(s, e) ELSE getMousePos(s, ms[Len(ms)])

(* C13: with tool select, pointer-down inside a rectangle, pointer-moves    *)
(* whose last position is the drag origin plus (dx, dy) and pointer-up      *)
(* leave the rectangle at its (x, y) plus (dx, dy) whatever the moves in    *)
(* between, with width and height unchanged, and append one history entry.  *)
C13_RectangleDrag ==
  (tool = "select" /\ ~isEditingText) =>
    \A e \in PointerEvents, ms \in MoveSeqs(PointerEvents) :
      LET origin == getMousePos(S, e)
          at == TopHit(S, origin)
          last == LastPos(S, e, ms)
          before == Elements(canvasState, S)
          u == Gesture(S, e, EmptyId, ms)
          after == Elements(u.canvasState, u)
      IN (at # 0 /\ before[at].type = "rectangle") =>
           /\ Len(after) = Len(before)
           /\ after[at].x = before[at].x + (last.x - origin.x)
           /\ after[at].y = before[at].y + (last.y - origin.y)
           /\ after[at].width = before[at].width
           /\ after[at].height = before[at].height
           /\ Len(u.history) = historyIndex + 2
           /\ u.historyIndex = historyIndex + 1

(* C14: dragging a line translates both endpoints by the same delta: after  *)
(* any number of pointer-moves of one drag, (endX - x, endY - y) is the     *)
(* vector it was before the drag.                                           *)
C14_LineDragKeepsVector ==
  (tool = "select" /\ ~isEditingText) =>
    \A e \in PointerEvents, ms \in MoveSeqs(PointerEvents) :
      LET at == TopHit(S, getMousePos(S, e))
          before == Elements(canvasState, S)
          m == Moves(handleMouseDown(S, e, EmptyId), ms)
          after == Elements(m.canvasState, m)
      IN (at # 0 /\ before[at].type = "line") =>
           /\ after[at].endX - after[at].x = before[at].endX - before[at].x
           /\ after[at].endY - after[at].y = before[at].endY - before[at].y

(* C15: dragging an element of any type translates every positional field  *)
(* by the cumulative pointer delta: x and y, a line's endX and endY and     *)
(* every point of a brush path are their values at drag start plus (last    *)
(* pointer position - drag origin).                                         *)
C15_DragTranslatesAll ==
  (tool = "select" /\ ~isEditingText) =>
    \A e \in PointerEvents, ms \in MoveSeqs(PointerEvents) :
      LET origin == getMousePos(S, e)
          at == TopHit(S, origin)
          last == LastPos(S, e, ms)
          dx == last.x - origin.x
          dy == last.y - origin.y
          before == Elements(canvasState, S)
          m == Moves(handleMouseDown(S, e, EmptyId), ms)
          after == Elements(m.canvasState, m)
      IN at # 0 =>
           /\ after[at].x = before[at].x + dx
           /\ after[at].y = before[at].y + dy
           /\ before[at].type = "line" =>
                /\ after[at].endX = before[at].endX + dx
                /\ after[at].endY = before[at].endY + dy
           /\ Len(after[at].points) = Len(before[at].points)
           /\ \A k \in 1..Len(before[at].points) :
                after[at].points[k] =
                  Point(before[at].points[k].x + dx, before[at].points[k].y + dy)

\* document points on and between the grid's points, and just outside it
ProbePoints ==
  LET half == GridStep \div 2
      coords == {half * i : i \in -1..(2 * MaxCoord + 1)}
  IN {Point(px, py) : px \in coords, py \in coords}

(* C16: findElementAtPosition returns the id of the last element in         *)
(* sequence order whose hit test contains the point, and null when none     *)
(* does: of two elements that both contain it, the one added later wins.    *)
C16_TopMostFirst ==
  \A pos \in ProbePoints :
    LET els == Elements(canvasState, S)
        Contains(i) == Hits(objs[canvasState.elements[i]], S, pos)
        found == findElementAtPosition(S, pos)
    IN /\ found = NULL <=> \A i \in 1..Len(els) : ~Contains(i)
       /\ \A i \in 1..Len(els) :
            (Contains(i) /\ \A j \in (i + 1)..Len(els) : ~Contains(j))
              => found = els[i].id

C16_Witness ==
  \E pos \in ProbePoints :
    /\ Len(canvasState.elements) = 2
    /\ Hits(objs[canvasState.elements[1]], S, pos)
    /\ Hits(objs[canvasState.elements[2]], S, pos)
    /\ objs[canvasState.elements[1]].id # objs[canvasState.elements[2]].id
    /\ objs[canvasState.elements[1]].type # objs[canvasState.elements[2]].type

\* the ways a text entry that began in state d (after the pointer-down) ends
\* without text: Escape, with or without typed text, and Enter or focus loss
\* over an empty or blank buffer
DiscardedEntries(d, id) ==
  {onKeyDown(d, "Escape", id), onKeyDown(onChange(d, <<"a">>), "Escape", id)}
  \cup UNION {{onKeyDown(onChange(d, v), "Enter", id), onBlur(onChange(d, v), id)} :
                v \in {<<>>, <<" ">>}}

(* C20: a text entry that ends with Escape, or with Enter or focus loss     *)
(* over an empty or blank buffer, creates no element and no history entry:  *)
(* when the machine is idle again the element list, the history and         *)
(* historyIndex are what they were before the pointer-down with tool text.  *)
C20_DiscardedTextLeavesNoTrace ==
  (tool = "text" /\ Idle(S)) =>
    \A e \in PointerEvents, id \in generateId :
      LET d == handleMouseDown(S, e, id)
          ends == DiscardedEntries(handleMouseUp(d), id)
                    \cup {handleMouseUp(f) : f \in DiscardedEntries(d, id)}
      IN \A f \in ends :
           Idle(f) => /\ CurrentDoc(f).elements = CurrentDoc(S).elements
                      /\ Docs(f) = Docs(S)
                      /\ f.historyIndex = historyIndex

\* C17: in every reachable state the zoom factor lies in [0.1, 5], whatever
\* sequence of zoom-in, zoom-out, ctrl-wheel steps and resets led there
C17_ZoomInRange == RLe(MinZoom, zoom) /\ RLe(zoom, MaxZoom)

\* the zoom is at its upper limit, and one more zoom-in step would exceed it
C17_Witness ==
  /\ zoom = MaxZoom
  /\ ~RLe(Times(zoom, ZoomInFactor), MaxZoom)
  /\ handleZoomIn(S).zoom = MaxZoom

---------------------------------------------------------------------------
(* The viewport transform. *)

\* half the rounding unit of the arithmetic: what one operation can be off by
HalfUnit == Rat(1, 2 * Pow2(FracBits))

\* q is the quotient a / z as the arithmetic gives it: q * z is a, up to the
\* rounding of one division
IsQuotient(q, a, z) == RLe(RAbs(RSub(RMul(q, z), a)), RMul(HalfUnit, z))

\* the viewport of the specification's scenario
ScenarioView == [InitialState EXCEPT !.zoom = Num(2), !.panOffset = Point(100, 100)]

\* the element a pointer-down with a drawing tool creates
Created(s, e, id) ==
  LET r == handleMouseDown(s, e, id)
  IN r.objs[r.canvasState.elements[Len(r.canvasState.elements)]]

(* C18: every pointer event is mapped to document coordinates as            *)
(* (screen - panOffset) / zoom with the pan and zoom of the state the       *)
(* event arrives in, and the handler uses that point; with zoom 2 and pan   *)
(* (100,100) the screen point (300,300) maps to (100,100).                  *)
C18_PointerToDocument ==
  /\ \A e \in GridEvents :
       LET pos == toDocument(S, Num(e.clientX), Num(e.clientY))
       IN /\ IsQuotient(pos.x, Num(e.clientX - panOffset.x), zoom)
          /\ IsQuotient(pos.y, Num(e.clientY - panOffset.y), zoom)
          /\ getMousePos(S, e) = Point(Coord(pos.x), Coord(pos.y))
          /\ StartsDraw(S, e) =>
               \A id \in generateId :
                 /\ Created(S, e, id).x = Coord(pos.x)
                 /\ Created(S, e, id).y = Coord(pos.y)
  /\ getMousePos(ScenarioView, LeftButtonAt(300, 300)) = Point(100, 100)

\* a pointer-down with the rectangle tool, zoomed and panned, creates an
\* element away from the event's screen point
C18_Witness ==
  /\ zoom # Num(1)
  /\ panOffset.x # 0 /\ panOffset.y # 0
  /\ \E e \in GridEvents :
       LET pos == toDocument(S, Num(e.clientX), Num(e.clientY))
       IN /\ StartsDraw(S, e)
          /\ pos.x # Num(e.clientX) /\ pos.y # Num(e.clientY)
          /\ Created(S, e, 1).x = Coord(pos.x)
          /\ Created(S, e, 1).y = Coord(pos.y)

\* Coordinates of document points: the integer ones of the probe grid, the
\* first multiples of the rounding unit, and where the current viewport puts
\* the pointer events.
DocCoords ==
  {Num((GridStep \div 2) * i) : i \in -1..(2 * MaxCoord + 1)}
    \cup {Rat(k, Pow2(FracBits)) : k \in 1..MaxFine}
    \cup {toDocument(S, Num(c), Num(c)).x : c \in Coords}
    \cup {toDocument(S, Num(c), Num(c)).y : c \in Coords}

\* p mapped to the screen and back, in state s
RoundTrip(s, px, py) ==
  LET screen == toScreen(s, px, py)
  IN toDocument(s, screen.x, screen.y)

\* b is a within the rounding of the two operations that round: half a unit
\* from the division, and half a unit from the product, divided by the zoom
WithinTolerance(b, a, z) ==
  RLe(RMul(RAbs(RSub(b, a)), z), RMul(HalfUnit, RAdd(z, Num(1))))

---------------------------------------------------------------------------
(* Text entry and pointer-down. *)

\* what a pointer-down leaves of the interaction: the gesture or text entry
\* it started, and the number of elements
Started(s) ==
  <<s.isDrawing, s.isDragging, s.isPanning, s.isEditingText,
    Len(s.canvasState.elements)>>

(* C21: a pointer-down received while a text entry is active first commits  *)
(* the pending text and is then processed as a normal pointer-down under    *)
(* the current tool: it starts the pan, selection, text entry or draw that  *)
(* the same pointer-down starts after the text was committed.               *)
C21_PointerDownFallsThrough ==
  isEditingText =>
    \A e \in PointerEvents, id \in generateId :
      LET r == handleMouseDown(S, e, id)
          committed == completeTextInput(S, id)
          pending == Elements(committed.canvasState, committed)
      IN /\ Len(r.canvasState.elements) >= Len(pending)
         /\ SubSeq(Elements(r.canvasState, r), 1, Len(pending)) = pending
         /\ \E next \in generateId :
              Started(r) = Started(handleMouseDown(committed, e, next))

---------------------------------------------------------------------------
(* Image loads. *)

\* r is s with one image element with the given id appended and selected
ImageAppended(r, s, id) ==
  LET before == Elements(s.canvasState, s)
      after == Elements(r.canvasState, r)
  IN /\ Len(after) = Len(before) + 1
     /\ SubSeq(after, 1, Len(before)) = before
     /\ after[Len(after)].type = "image"
     /\ after[Len(after)].id = id
     /\ r.canvasState.selectedElementId = id

\* r is s with one history entry added after the current one
OneEntryAdded(r, s) ==
  /\ r.historyIndex = s.historyIndex + 1
  /\ Len(r.history) = s.historyIndex + 2
  /\ \A i \in 1..(s.historyIndex + 1) :
       Doc(r.history[i], r) = Doc(s.history[i], s)

(* C22: each image-load completion appends exactly one image element at    *)
(* the end of the element sequence, makes it the selection, and commits     *)
(* history exactly once: historyIndex advances by one and the new entry is  *)
(* the only entry added.                                                    *)
C22_LoadCompletionCommitsOnce ==
  \A k \in 1..Len(loads), id \in generateId :
    LET r == imageLoaded(S, k, id)
    IN ImageAppended(r, S, id) /\ OneEntryAdded(r, S)

\* two image drops, at e1 and then at e2, both loading
TwoLoading(s, e1, e2) ==
  handleDrop(handleDrop(s, <<ImageFile>>, e1), <<ImageFile>>, e2)

(* C23: when a second image load is started while the first is still        *)
(* loading, both completions apply independently and in completion order:   *)
(* after both the document has both image elements, ordered by completion,  *)
(* the selection is the image that completed later, and each completion     *)
(* has added its own history entry, so the history grew by two.             *)
C23_TwoLoadsBothApply ==
  loads = <<>> =>
    \A e1 \in PointerEvents, e2 \in PointerEvents, k \in 1..2 :
      \A id1 \in generateId, id2 \in generateId :
        LET started == TwoLoading(S, e1, e2)
            one == imageLoaded(started, k, id1)
            both == imageLoaded(one, 1, id2)
        IN /\ ImageAppended(one, S, id1)
           /\ ImageAppended(both, one, id2)
           /\ both.loads = <<>>
           /\ both.historyIndex = historyIndex + 2
           /\ Len(both.history) = historyIndex + 3

\* file lists whose files are not images, and the lists a file input can
\* hand over whose first file is not an image
NonImageLists ==
  {<<[TextFile EXCEPT !.type = type]>> : type \in {"text/plain", "application/pdf", ""}}
    \cup {<<TextFile, [TextFile EXCEPT !.type = "application/pdf"]>>}

RejectedUploads == NonImageLists \cup {<<TextFile, ImageFile>>}

(* C24: selecting or dropping a file whose type is not an image is          *)
(* rejected before any state mutation: no load is started and the element   *)
(* list, the selection, the history and historyIndex are unchanged; the     *)
(* whole state is, so every later event finds what it would have found.     *)
C24_NonImageRejected ==
  /\ \A files \in RejectedUploads : handleImageUpload(S, files) = S
  /\ \A files \in NonImageLists, e \in PointerEvents : handleDrop(S, files, e) = S

\* a document with elements and history, with a load in flight, on which a
\* text file is dropped and selected
C24_Witness ==
  /\ Len(canvasState.elements) > 0
  /\ historyIndex > 0
  /\ Len(loads) = 1
  /\ handleImageUpload(S, <<TextFile>>) = S
  /\ \A e \in PointerEvents : handleDrop(S, <<TextFile>>, e) = S

---------------------------------------------------------------------------
(* Commands without a target. *)

\* s as it is when nothing is selected, and s with a selection that matches
\* no element of the list
Unmatched(s) ==
  (IF s.canvasState.selectedElementId = NULL THEN {s} ELSE {})
  \cup {[s EXCEPT !.canvasState.selectedElementId = id] :
          id \in {d \in 1..(MaxId + 1) : FindById(s, d) = 0}}

---------------------------------------------------------------------------
(* Undo and redo. *)

\* r is s moved to the history entry at index, with the history as it was
MovedTo(r, s, index) ==
  /\ r.historyIndex = index
  /\ CurrentDoc(r) = Doc(s.history[index + 1], s)
  /\ r.history = s.history
  /\ Docs(r) = Docs(s)

(* C26: undo with historyIndex = 0 and redo with historyIndex =              *)
(* history.length - 1 change nothing; otherwise undo decrements and redo    *)
(* increments historyIndex by exactly one, the document becomes the history *)
(* entry at the new index, and the history sequence itself is unchanged.    *)
C26_UndoRedoStep ==
  /\ IF historyIndex = 0 THEN undo(S) = S
     ELSE MovedTo(undo(S), S, historyIndex - 1)
  /\ IF historyIndex = Len(history) - 1 THEN redo(S) = S
     ELSE MovedTo(redo(S), S, historyIndex + 1)

\* in the middle of a history whose neighbouring entries differ from the
\* current document
C26_Witness ==
  /\ historyIndex > 0
  /\ historyIndex < Len(history) - 1
  /\ CurrentDoc(undo(S)) # CurrentDoc(S)
  /\ CurrentDoc(redo(S)) # CurrentDoc(S)
  /\ CurrentDoc(undo(S)) # CurrentDoc(redo(S))

---------------------------------------------------------------------------
(* Creating elements. *)

\* el is an element of the given type at pos with nothing drawn yet
Degenerate(el, type, pos) ==
  /\ el.type = type
  /\ el.x = pos.x /\ el.y = pos.y
  /\ type \in {"rectangle", "triangle"} => el.width = 0 /\ el.height = 0
  /\ type \in {"circle", "star", "polygon"} => el.radiusSq = 0
  /\ type = "brush" => el.points = <<pos>>
  /\ type = "line" => el.endX = pos.x /\ el.endY = pos.y

(* C27: a pointer-down with a shape or brush tool (brush, rectangle,        *)
(* triangle, circle, star, polygon, line) while idle appends exactly one    *)
(* element at the end of the sequence, whose type is the tool, whose anchor *)
(* is the pointer's document position and whose geometry is degenerate,     *)
(* makes it the selection, and leaves the existing elements unchanged.      *)
C27_PointerDownCreates ==
  Idle(S) =>
    \A t \in DrawTools, e \in GridEvents, id \in generateId :
      LET s == setTool(S, t)
          r == handleMouseDown(s, e, id)
          before == Elements(canvasState, S)
          after == Elements(r.canvasState, r)
      IN /\ Len(after) = Len(before) + 1
         /\ SubSeq(after, 1, Len(before)) = before
         /\ Degenerate(after[Len(after)], t, getMousePos(s, e))
         /\ after[Len(after)].id = id
         /\ r.canvasState.selectedElementId = id
         /\ r.isDrawing

\* a circle was just started on a document that already had an element
C27_Witness ==
  /\ isDrawing
  /\ tool = "circle"
  /\ Len(canvasState.elements) = 2
  /\ Degenerate(Elements(canvasState, S)[2], "circle",
                Point(objs[canvasState.elements[2]].x, objs[canvasState.elements[2]].y))
  /\ canvasState.selectedElementId = objs[canvasState.elements[2]].id
  /\ objs[canvasState.elements[1]].type # "circle"

---------------------------------------------------------------------------
(* Panning. *)

\* the pointer-downs that start a pan in state s: the middle button, the
\* left button with ctrl, and the left button when the tool is pan
PanDowns(s) ==
  {e \in [button : {0, 1}, ctrlKey : BOOLEAN, clientX : Coords, clientY : {0}] :
     IsPanGesture(s, e)}

---------------------------------------------------------------------------
(* Brush strokes. *)

\* the points of the last element of s
BrushPath(s) ==
  s.paths[s.objs[s.canvasState.elements[Len(s.canvasState.elements)]].points]

\* the document positions of the pointer events ms under the viewport of s
Positions(s, ms) == [i \in 1..Len(ms) |-> getMousePos(s, ms[i])]

\* a brush stroke is being drawn in s
DrawingBrush(s) ==
  /\ s.isDrawing /\ ~s.isDragging /\ ~s.isPanning
  /\ s.tool = "brush"
  /\ s.canvasState.elements # <<>>
  /\ s.objs[s.canvasState.elements[Len(s.canvasState.elements)]].type = "brush"

(* C29: while a brush stroke is being drawn its path only grows: every      *)
(* pointer-move of the draw gesture appends exactly one point, the          *)
(* pointer's document position, to the end of the path, and no point        *)
(* already in the path is removed or changed, so that after n moves the     *)
(* path has n + 1 points.                                                   *)
C29_BrushPathGrows ==
  /\ Idle(S) =>
       \A e \in PointerEvents, id \in generateId, ms \in MoveSeqs(PointerEvents) :
         LET s == setTool(S, "brush")
             m == Moves(handleMouseDown(s, e, id), ms)
         IN /\ BrushPath(m) = <<getMousePos(s, e)>> \o Positions(s, ms)
            /\ Len(BrushPath(m)) = Len(ms) + 1
  /\ DrawingBrush(S) =>
       \A e \in GridEvents :
         BrushPath(handleMouseMove(S, e)) = Append(BrushPath(S), getMousePos(S, e))

\* a stroke in progress that has grown by a move to another position
C29_Witness ==
  /\ DrawingBrush(S)
  /\ Len(BrushPath(S)) = 2
  /\ BrushPath(S)[1] # BrushPath(S)[2]
  /\ BrushPath(S)[1] = Point(objs[canvasState.elements[Len(canvasState.elements)]].x,
                             objs[canvasState.elements[Len(canvasState.elements)]].y)

---------------------------------------------------------------------------
(* Rectangles and triangles drawn leftwards or upwards. *)

\* p lies in [min(x, x + width), max(x, x + width)] x
\* [min(y, y + height), max(y, y + height)]
InBox(el, p) ==
  /\ Min(el.x, el.x + el.width) <= p.x /\ p.x <= Max(el.x, el.x + el.width)
  /\ Min(el.y, el.y + el.height) <= p.y /\ p.y <= Max(el.y, el.y + el.height)

\* x, y, width and height of the elements of s, in order
Boxes(s) ==
  [i \in 1..Len(s.canvasState.elements) |->
     LET el == s.objs[s.canvasState.elements[i]]
     IN <<el.x, el.y, el.width, el.height>>]

\* a click with the select tool at e, released where it was pressed
SelectClick(s, e) ==
  handleMouseUp(handleMouseDown(setTool(s, "select"), e, EmptyId))

(* C30: drawing a rectangle or triangle leftwards or upwards stores         *)
(* negative width / height with the anchor (x, y) kept at the pointer-down  *)
(* point; hit testing, selecting, undo and redo do not rewrite the stored   *)
(* anchor or sign; and a hit test at p matches the element exactly when p   *)
(* lies in the box [min(x, x+width), max(x, x+width)] x                     *)
(* [min(y, y+height), max(y, y+height)].                                    *)
C30_NegativeExtent ==
  /\ \A i \in 1..Len(canvasState.elements), p \in ProbePoints :
       LET el == objs[canvasState.elements[i]]
       IN el.type \in {"rectangle", "triangle"} =>
            (Hits(el, S, p) <=> InBox(el, p))
  /\ (Idle(S) /\ canvasState.elements = <<>>) =>
       \A t \in {"rectangle", "triangle"}, e \in GridEvents, m \in GridEvents :
         \A id \in generateId :
           LET s == setTool(S, t)
               a == getMousePos(s, e)
               q == getMousePos(s, m)
               u == Gesture(s, e, id, <<m>>)
               el == u.objs[u.canvasState.elements[1]]
           IN /\ Len(u.canvasState.elements) = 1
              /\ el.x = a.x /\ el.y = a.y
              /\ el.width = q.x - a.x /\ el.height = q.y - a.y
              /\ \A p \in ProbePoints :
                   (findElementAtPosition(u, p) = id) <=> InBox(el, p)
              /\ \A c \in GridEvents : Boxes(SelectClick(u, c)) = Boxes(u)
              /\ Boxes(redo(undo(u))) = Boxes(u)

\* a committed rectangle that extends leftwards from its anchor and is hit
\* left of the anchor
C30_Witness ==
  /\ Idle(S)
  /\ \E i \in 1..Len(canvasState.elements) :
       LET el == objs[canvasState.elements[i]]
       IN /\ el.type = "rectangle"
          /\ el.x = GridStep /\ el.width = -GridStep
          /\ Hits(el, S, Point(GridStep \div 2, 0))
          /\ ~Hits(el, S, Point(GridStep + GridStep \div 2, 0))

---------------------------------------------------------------------------
(* The hit test of lines against the distance to the stored segment. *)

(* C31: a visible line with stored endpoints (x, y) and (endX, endY) that   *)
(* differ is matched at p exactly when the distance from p to that segment, *)
(* with the projection parameter clamped to [0, 1], is at most              *)
(* max(strokeWidth / 2, 8); also when endX or endY is 0.                    *)
C31_LineHitIsSegmentDistance ==
  \A i \in 1..Len(canvasState.elements), p \in ProbePoints :
    LET el == objs[canvasState.elements[i]]
        C == el.endX - el.x
        D == el.endY - el.y
        A == p.x - el.x
        B == p.y - el.y
        dot == A * C + B * D
        lenSq == C * C + D * D
        limit == Max(el.strokeWidth, 16)
        near ==
          IF dot < 0 THEN 4 * DistSq(p.x, p.y, el.x, el.y) <= limit * limit
          ELSE IF dot > lenSq
          THEN 4 * DistSq(p.x, p.y, el.endX, el.endY) <= limit * limit
          ELSE 4 * ((A * lenSq - dot * C) * (A * lenSq - dot * C)
                    + (B * lenSq - dot * D) * (B * lenSq - dot * D))
                 <= limit * limit * lenSq * lenSq
    IN (el.type = "line" /\ el.visible /\ el.endX # UNDEF /\ el.endY # UNDEF
          /\ (el.endX # el.x \/ el.endY # el.y))
         => (Hits(el, S, p) <=> near)

---------------------------------------------------------------------------
(* The image tool. *)

(* C32: a pointer-down with tool image enters neither drawing nor dragging, *)
(* and the pointer-moves and the pointer-up that follow leave the elements, *)
(* the selection, the history and historyIndex as they were.                *)
C32_ImageToolStaysIdle ==
  (Idle(S) /\ tool = "image") =>
    \A e \in PointerEvents, id \in generateId, ms \in MoveSeqs(PointerEvents) :
      LET d == handleMouseDown(S, e, id)
          u == Gesture(S, e, id, ms)
      IN /\ ~d.isDrawing /\ ~d.isDragging
         /\ CurrentDoc(u) = CurrentDoc(S)
         /\ Docs(u) = Docs(S)
         /\ u.historyIndex = historyIndex

---------------------------------------------------------------------------
(* Text entry. *)

(* C33 as stated: while text is being edited, a commit (Enter, focus loss)  *)
(* with a non-empty buffer appends exactly one text element at the captured *)
(* position, holding the buffer, and selects it.                            *)
C33_NonEmptyBufferCommits ==
  (isEditingText /\ textInputValue # <<>>) =>
    \A id \in generateId :
      \A r \in {onKeyDown(S, "Enter", id), onBlur(S, id)} :
        LET before == Elements(canvasState, S)
            after == Elements(r.canvasState, r)
        IN /\ Len(after) = Len(before) + 1
           /\ SubSeq(after, 1, Len(before)) = before
           /\ after[Len(after)].type = "text"
           /\ after[Len(after)].text = textInputValue
           /\ after[Len(after)].x = textInputPosition.x
           /\ after[Len(after)].y = textInputPosition.y
           /\ r.canvasState.selectedElementId = after[Len(after)].id

(* C33, amended: a commit whose buffer is non-empty after trimming appends  *)
(* exactly one text element at the position captured at the text tool's     *)
(* pointer-down, holding the buffer as typed, and selects it; a commit      *)
(* whose buffer is empty or only spaces appends nothing; either way the     *)
(* session ends, and a further commit adds nothing; the text tool's         *)
(* pointer-down captures the pointer's document point and creates nothing,  *)
(* and typing and keys other than Enter create nothing.                     *)
C33_TrimmedBufferCommits ==
  /\ isEditingText =>
       \A id \in generateId :
         /\ \A r \in {onKeyDown(S, "Enter", id), onBlur(S, id)} :
              LET before == Elements(canvasState, S)
                  after == Elements(r.canvasState, r)
              IN /\ ~r.isEditingText
                 /\ \A id2 \in generateId :
                      Elements(completeTextInput(r, id2).canvasState,
                               completeTextInput(r, id2)) = after
                 /\ IF Trim(textInputValue) # <<>>
                    THEN /\ Len(after) = Len(before) + 1
                         /\ SubSeq(after, 1, Len(before)) = before
                         /\ after[Len(after)].type = "text"
                         /\ after[Len(after)].text = textInputValue
                         /\ after[Len(after)].x = textInputPosition.x
                         /\ after[Len(after)].y = textInputPosition.y
                         /\ r.canvasState.selectedElementId = after[Len(after)].id
                    ELSE after = before
         /\ \A r \in {onChange(S, v) : v \in TextValues}
                       \cup {onKeyDown(S, k, id) : k \in Keys \ {"Enter"}} :
              Elements(r.canvasState, r) = Elements(canvasState, S)
  /\ (Idle(S) /\ tool = "text") =>
       \A e \in GridEvents, id \in generateId :
         LET d == handleMouseDown(S, e, id)
         IN /\ d.isEditingText
            /\ d.textInputPosition = getMousePos(S, e)
            /\ d.textInputValue = <<>>
            /\ Elements(d.canvasState, d) = Elements(canvasState, S)

\* a committed text element at the captured point, selected, after typing
C33_Witness ==
  /\ ~isEditingText
  /\ \E i \in 1..Len(canvasState.elements) :
       LET el == objs[canvasState.elements[i]]
       IN /\ el.type = "text" /\ el.text = <<"a">>
          /\ el.x = GridStep
          /\ canvasState.selectedElementId = el.id
          /\ i = Len(canvasState.elements)

---------------------------------------------------------------------------
(* The pointer-up. *)

(* C34: after a pointer-up, whatever preceded it (a draw, a drag, a pan     *)
(* gesture started with the middle button or with ctrl, or nothing),        *)
(* isPanning, isDragging and isDrawing are all false, and a pointer-move in *)
(* that state changes nothing.                                              *)
C34_PointerUpReturnsToIdle ==
  \A s \in {S}
           \cup {handleMouseDown(S, e, EmptyId) : e \in PanDowns(S)}
           \cup {handleMouseMove(handleMouseDown(S, e, EmptyId), m) :
                   e \in PanDowns(S), m \in GridEvents} :
    LET u == handleMouseUp(s)
    IN /\ ~u.isPanning /\ ~u.isDragging /\ ~u.isDrawing
       /\ \A m \in GridEvents \cup PanEvents : handleMouseMove(u, m) = u

\* a drag in progress whose pointer-up commits and ends it
C34_Witness ==
  /\ isDragging /\ isDrawing
  /\ canvasState.elements # <<>>
  /\ handleMouseUp(S).historyIndex = historyIndex + 1
  /\ ~handleMouseUp(S).isDragging

---------------------------------------------------------------------------
(* Paint order. *)

(* C35: creating an element (pointer-down with a drawing tool, text commit, *)
(* image load completion) appends it after the elements there were; a       *)
(* live-resize or drag pointer-move, a pointer-up and a property update     *)
(* keep the ids and types of the elements in their order; a delete keeps    *)
(* the elements it does not remove in their order.                          *)
C35_OrderPreserved ==
  LET before == Identities(canvasState, S)
      After(r) == Identities(r.canvasState, r)
      Survives(i) == i[1] # canvasState.selectedElementId
  IN /\ Idle(S) =>
          \A t \in DrawTools, e \in PointerEvents, id \in generateId :
            After(handleMouseDown(setTool(S, t), e, id)) = Append(before, <<id, t>>)
     /\ isEditingText =>
          \A id \in generateId :
            After(completeTextInput(S, id)) =
              IF Trim(textInputValue) # <<>>
              THEN Append(before, <<id, "text">>) ELSE before
     /\ \A k \in 1..Len(loads), id \in generateId :
          After(imageLoaded(S, k, id)) = Append(before, <<id, "image">>)
     /\ \A r \in MoveResults(S) \cup {handleMouseUp(S)}
                   \cup {updateSelectedElement(S, u) : u \in PanelUpdates} :
          After(r) = before
     /\ After(deleteSelectedElement(S)) =
          IF TruthyId(canvasState.selectedElementId)
          THEN SelectSeq(before, Survives) ELSE before

\* an image load completing on a document that already holds an element
C35_Witness ==
  /\ Len(canvasState.elements) = 2
  /\ objs[canvasState.elements[1]].type = "rectangle"
  /\ objs[canvasState.elements[2]].type = "image"
  /\ loads = <<>>

---------------------------------------------------------------------------
(* Property edits during a drag. *)

(* C36: after a property update made while a drag is in progress, the       *)
(* fields it set other than x and y keep the edited value on the dragged    *)
(* element through every later pointer-move of the drag and after the       *)
(* pointer-up; x is the edited value until the next pointer-move and the    *)
(* drag's value (dragElementStart.x + pointer delta) from then on.          *)
C36_EditDuringDragKept ==
  (isDragging /\ TruthyId(canvasState.selectedElementId)) =>
    \A u \in PanelUpdates, ms \in MoveSeqs(PointerEvents) :
      LET edited == updateSelectedElement(S, u)
          moved == Moves(edited, ms)
      IN \A r \in {moved, handleMouseUp(moved)} :
           /\ r.canvasState.selectedElementId = canvasState.selectedElementId
           /\ \A i \in 1..Len(r.canvasState.elements) :
                LET el == r.objs[r.canvasState.elements[i]]
                IN el.id = canvasState.selectedElementId =>
                     \A f \in DOMAIN u :
                       IF f \notin {"x", "y"} \/ ms = <<>>
                       THEN el[f] = u[f]
                       ELSE el.x = dragElementStart.x
                                     + (getMousePos(S, ms[Len(ms)]).x - dragStart.x)

\* a drag in progress during which the panel set x, and whose next
\* pointer-move writes the position again
C36_Witness ==
  /\ isDragging /\ historyIndex = 2
  /\ dragElementStart.x = 0
  /\ \E i \in 1..Len(canvasState.elements), e \in PointerEvents :
       LET el == objs[canvasState.elements[i]]
           m == handleMouseMove(S, e)
       IN /\ el.id = canvasState.selectedElementId
          /\ el.x = GridStep /\ dragStart.x = 0
          /\ m.objs[m.canvasState.elements[i]].x = 0

---------------------------------------------------------------------------
(* Events between the pointer-down and the pointer-up of a draw gesture. *)

(* C37: in a draw gesture, a pointer-move changes no element other than the *)
(* one the gesture's pointer-down created, also when an image load          *)
(* completes, the panel deletes the selection or the tool changes between   *)
(* the pointer-down and that pointer-move.                                  *)
C37_DrawMovesOnlyCreated ==
  (Idle(S) /\ tool \in DrawTools) =>
    \A e \in PointerEvents, id \in generateId :
      LET down == handleMouseDown(S, e, id)
          created == Len(canvasState.elements) + 1
          deleted == deleteSelectedElement(down)
      IN \A mid \in {down, deleted}
                      \cup {imageLoaded(down, k, id2) :
                              k \in 1..Len(down.loads), id2 \in generateId}
                      \cup {setTool(down, t) : t \in DrawTools \cup DocTools} :
           \A m \in PointerEvents :
             LET r == handleMouseMove(mid, m)
                 was == Elements(mid.canvasState, mid)
                 now == Elements(r.canvasState, r)
                 gone == mid = deleted /\ deleted # down
             IN /\ Len(now) = Len(was)
                /\ \A i \in 1..Len(was) :
                     (i # created \/ gone) => now[i] = was[i]

---------------------------------------------------------------------------
(* Events between the pointer-down and the pointer-up of a drag gesture. *)

(* C38: in a drag gesture, a pointer-move changes no element other than the *)
(* one hit at the pointer-down (none with another id), also when an image   *)
(* load completes and selects the new image between the pointer-down and    *)
(* that pointer-move.  The image's id ranges over the ids of the model and  *)
(* one more, so that it can be a non-empty id other than the hit one.       *)
C38_DragMovesOnlyHit ==
  (Idle(S) /\ tool = "select") =>
    \A e \in PointerEvents :
      LET down == handleMouseDown(S, e, EmptyId)
          hit == down.canvasState.selectedElementId
      IN down.isDragging =>
           \A mid \in {down} \cup {imageLoaded(down, k, id) :
                                    k \in 1..Len(down.loads),
                                    id \in generateId \cup {MaxId + 1}} :
             \A m \in PointerEvents :
               LET r == handleMouseMove(mid, m)
                   was == Elements(mid.canvasState, mid)
                   now == Elements(r.canvasState, r)
               IN /\ Len(now) = Len(was)
                  /\ \A i \in 1..Len(was) :
                       was[i].id # hit => now[i] = was[i]

---------------------------------------------------------------------------
(* The history across an image load. *)

(* C39: when historyIndex is at the last entry just before an image load    *)
(* completes, every history entry there is before the completion is still   *)
(* there, at its index and with its content, after it.                      *)
C39_HistoryKeptAcrossLoad ==
  historyIndex = Len(history) - 1 =>
    \A k \in 1..Len(loads), id \in generateId :
      LET r == imageLoaded(S, k, id)
      IN /\ Len(r.history) >= Len(history)
         /\ SubSeq(Docs(r), 1, Len(history)) = Docs(S)

---------------------------------------------------------------------------
(* One undo after one change. *)

(* C40: after a single committed change made from an idle state (a property *)
(* update, a delete, a draw gesture, a drag gesture) or a text commit, one  *)
(* undo gives the elements exactly as they were just before that change.    *)
C40_UndoStepsBackOneChange ==
  LET before == Elements(canvasState, S)
      Undone(r) == Elements(undo(r).canvasState, undo(r))
  IN /\ (Idle(S) /\ TruthyId(canvasState.selectedElementId)) =>
          \A r \in {updateSelectedElement(S, u) : u \in PanelUpdates}
                     \cup {deleteSelectedElement(S)} :
            Undone(r) = before
     /\ (isEditingText /\ ~isDrawing /\ ~isDragging /\ Trim(textInputValue) # <<>>) =>
          \A id \in generateId : Undone(completeTextInput(S, id)) = before
     /\ Idle(S) =>
          \A e \in PointerEvents, id \in generateId, ms \in MoveSeqs(PointerEvents) :
            (StartsDraw(S, e) \/ StartsDrag(S, e)) =>
              Undone(Gesture(S, e, id, ms)) = before

====
